---- MODULE Spec2Model ----
(***************************************************************************)
(* Background job scheduling of alfrusco (src/src/background_job.rs).      *)
(*                                                                         *)
(* One job directory with its PID, Status and Last-Run markers, the        *)
(* process table as sysinfo shows it, the detached monitor subshells, and  *)
(* the invocations of BackgroundJob::run_if_needed, each split at the      *)
(* points where it reads or writes the shared directory or the process     *)
(* table, so that monitors and other invocations interleave with it.       *)
(***************************************************************************)
EXTENDS Integers, Sequences, FiniteSets, TLC

\* ------------------------------------------------------------------ bounds
MaxTime == 1        \* the clock runs over 0..MaxTime (seconds)
MaxProcs == 2       \* pids in use at a time, and monitor subshells at work at a time
MaxAgeLong == 1     \* the non-zero max_age callers pass
MaxExitCode == 1    \* the command exits with a code in 0..MaxExitCode
PidBase == 8        \* the operating system hands out the pids PidBase+1, PidBase+2, ...

Invokers == {1, 2}
Pids == (PidBase + 1)..(PidBase + MaxProcs)
MaxAges == {0, MaxAgeLong}
ExitCodes == 0..MaxExitCode

None == -1          \* Option::None of a Duration, of a pid, of an mtime
Panic == -2         \* the call did not return: unwrap() of an Err panicked

\* A file is [exists, content]; content is a sequence of characters or of
\* multi-character fragments ("success", "\n").
NoFile == [exists |-> FALSE, content |-> << >>]
File(content) == [exists |-> TRUE, content |-> content]

\* ---------------------------------------------------------------- commands
\* A program name or an argument is a sequence of fragments; the fragment
\* "non_existent_command" is the substring the launcher looks for.
Sentinel == "non_existent_command"

CmdEcho == [program |-> <<"echo">>, args |-> << <<"test">> >>]
CmdMissing == [program |-> <<Sentinel, "_that_definitely_does_not_exist">>, args |-> << >>]
CmdEchoSentinelArg == [program |-> <<"echo">>, args |-> << <<Sentinel, "_sentinel">> >>]
Commands == {CmdEcho, CmdMissing, CmdEchoSentinelArg}
NoCommand == [program |-> << >>, args |-> << >>]

\* str::contains, at the granularity of fragments
Contains(s, needle) == \E k \in DOMAIN s : s[k] = needle

\* ------------------------------------------------------------------- state
VARIABLES
    now,         \* SystemTime::now()
    dirExists,   \* the job directory exists
    pidFile,     \* job.pid
    statusFile,  \* job.status
    lastRun,     \* job.last_run: None when absent, else its mtime
    proc,        \* process table: pid -> [alive, start] of a spawned /bin/bash
                 \* that job.pid names or an invocation is about to record
    executing,   \* number of monitor subshells whose command has not ended
    touching,    \* exit code -> number of subshells that wrote the status and
                 \* have yet to touch job.last_run
    prev,        \* what the latest invocation started has spawned: "none", or a
                 \* monitor "shared" (others at work), or one alone at work:
                 \* "solo", then "ok" or "failed" once its command has ended,
                 \* or "died" if it was killed before
    inv,         \* invoker -> the invocation of run_if_needed it is in or has finished
    overlapped,  \* some invocation has started while another was in progress
    logFile,     \* job.logs exists: the output of a command that has ended
    crossed,     \* since a monitor was last at work with none before it, some
                 \* monitor has written its status while another one had
                 \* written its own and not yet touched job.last_run
    esc          \* a command on its way from the launcher to /bin/bash: its
                 \* tokens, the escaped parts, the command string, the words
                 \* the shell splits it into

vars == <<now, dirExists, pidFile, statusFile, lastRun, proc, executing, touching, prev, inv,
          overlapped, logFile, crossed, esc>>

\* No command is being looked at.
NoEsc == [step |-> "none", tokens |-> << >>, parts |-> << >>, cmdString |-> << >>, words |-> << >>]

\* The display item run() returns; NoItem is Option::None.
NoItem == [some |-> FALSE, title |-> << >>, subtitle |-> << >>, icon |-> "", valid |-> "unset"]

\* An invocation that has not started: every field at its neutral value.
\*   pc         where the invocation is in run_if_needed ("idle": not in it,
\*              "done": it returns, the caller has the result in hand), then
\*              in the rest of run() ("report": about to read the status for
\*              the item, "shown": run() returns the item)
\*   maxAge     self.max_age, cmd  self.command
\*   staleness  the local of line 181, status  the job_status of line 197
\*   spawned    the pid create_and_run_monitor_script returned
\*   kind, err, dur  the result: Fresh, Stale (with its run duration) or Err
\*   newJob     the job directory did not exist when the invocation started
\*   afterOk    the invocation before this one spawned a monitor, alone at
\*              work, which ended with exit code 0 before this one started
\*   afterFailed  the same, with a non-zero exit code
\*   item       what run() returns
\*   seen       the PID Marker in place is one that the first liveness check
\*              (line 184) found to name a live process
IdleInv ==
    [pc |-> "idle", maxAge |-> None, cmd |-> NoCommand, newJob |-> FALSE,
     staleness |-> None, status |-> "unread", spawned |-> None,
     kind |-> "none", err |-> "none", dur |-> None, afterOk |-> FALSE,
     afterFailed |-> FALSE, item |-> NoItem, seen |-> FALSE]

Init ==
    /\ now = 0
    /\ dirExists = FALSE
    /\ pidFile = NoFile
    /\ statusFile = NoFile
    /\ lastRun = None
    /\ proc = [p \in Pids |-> [alive |-> FALSE, start |-> None]]
    /\ executing = 0
    /\ touching = [c \in ExitCodes |-> 0]
    /\ prev = "none"
    /\ inv = [i \in Invokers |-> IdleInv]
    /\ overlapped = FALSE
    /\ logFile = FALSE
    /\ crossed = FALSE
    /\ esc = NoEsc

\* --------------------------------------------------------- pure functions
Whitespace == {" ", "\n", "\t"}

\* str::trim: leading and trailing whitespace removed
RECURSIVE TrimStart(_)
TrimStart(s) ==
    IF s # << >> /\ Head(s) \in Whitespace THEN TrimStart(Tail(s)) ELSE s

RECURSIVE TrimEnd(_)
TrimEnd(s) ==
    IF s # << >> /\ s[Len(s)] \in Whitespace THEN TrimEnd(SubSeq(s, 1, Len(s) - 1)) ELSE s

Trim(s) == TrimEnd(TrimStart(s))

DigitChars == <<"0", "1", "2", "3", "4", "5", "6", "7", "8", "9">>

\* variant: only the last digit of n is written
PidToString_LastDigit(n) == <<DigitChars[(n % 10) + 1]>>

\* u32::to_string: the decimal digits of n
RECURSIVE PidToString(_)
PidToString(n) ==
    IF n < 10 THEN <<DigitChars[n + 1]>>
    ELSE PidToString(n \div 10) \o <<DigitChars[(n % 10) + 1]>>

DigitValue(c) == CHOOSE d \in 0..9 : DigitChars[d + 1] = c
IsDigit(c) == \E d \in 0..9 : DigitChars[d + 1] = c

\* str::parse::<u32>: None unless the string is a non-empty run of digits
RECURSIVE ParseDigits(_, _)
ParseDigits(s, acc) ==
    IF s = << >> THEN acc
    ELSE ParseDigits(Tail(s), acc * 10 + DigitValue(Head(s)))

ParseU32(s) ==
    IF s # << >> /\ \A k \in DOMAIN s : IsDigit(s[k]) THEN ParseDigits(s, 0) ELSE None

\* variant: Failed is written as "unknown"
StatusStr_FailedUnknown(status) ==
    CASE status = "Success" -> <<"success">>
      [] status = "Running" -> <<"running">>
      [] OTHER -> <<"unknown">>

\* JobExecutionStatus -> the string save_job_status writes
StatusStr(status) ==
    CASE status = "Success" -> <<"success">>
      [] status = "Failed" -> <<"failed">>
      [] status = "Running" -> <<"running">>
      [] OTHER -> <<"unknown">>

\* get_job_status: the trimmed content -> JobExecutionStatus; an absent file
\* (read_to_string fails) is Unknown
GetJobStatus ==
    IF ~statusFile.exists THEN "Unknown"
    ELSE LET t == Trim(statusFile.content) IN
         CASE t = <<"success">> -> "Success"
           [] t = <<"failed">> -> "Failed"
           [] t = <<"running">> -> "Running"
           [] OTHER -> "Unknown"

\* get_pid: the pid job.pid holds, None when it is absent or does not parse
GetPid == IF ~pidFile.exists THEN None ELSE ParseU32(Trim(pidFile.content))

\* get_staleness: now - mtime of job.last_run, None when the file is absent
GetStaleness ==
    IF lastRun = None THEN None
    ELSE IF lastRun > now THEN Panic      \* duration_since(last_run).unwrap()
    ELSE now - lastRun

\* variant: a job with no readable pid counts as running since just now
GetRunningDuration_NoPidRuns ==
    LET pid == GetPid IN
    IF pid = None THEN 0
    ELSE IF pid \in Pids /\ proc[pid].alive THEN now - proc[pid].start
    ELSE None

\* get_running_duration: the age of the process job.pid names, None when
\* get_pid fails or the process table holds no such process
GetRunningDuration ==
    LET pid == GetPid IN
    IF pid = None THEN None
    ELSE IF pid \in Pids /\ proc[pid].alive THEN now - proc[pid].start
    ELSE None

\* variant: a staleness equal to max_age still counts as recent
Recent_Inclusive(staleness, maxAge) == staleness # None /\ staleness <= maxAge

\* the freshness test of run_if_needed: staleness present and below max_age
Recent(staleness, maxAge) == staleness # None /\ staleness < maxAge

\* variant: Fresh needs a margin of one second below max_age
IsFresh_Margin(staleness, maxAge, status) ==
    staleness # None /\ staleness + 1 < maxAge /\ status = "Success"

\* variant: Fresh whatever the last run's status was
IsFresh_AnyStatus(staleness, maxAge, status) == Recent(staleness, maxAge)

\* variant: Fresh unless the last run is recorded as failed
IsFresh_NotFailed(staleness, maxAge, status) == Recent(staleness, maxAge) /\ status # "Failed"

\* variant: a job with no readable status counts as one that succeeded
IsFresh_NoMarkerIsSuccess(staleness, maxAge, status) ==
    Recent(staleness, maxAge) /\ status \in {"Success", "Unknown"}

\* lines 194-200: Fresh only if recent and the last run succeeded; the status
\* is read only when the staleness is recent
IsFresh(staleness, maxAge, status) == Recent(staleness, maxAge) /\ status = "Success"

\* variant: no early exit
FailsEarly_Never(cmd) == FALSE

\* the early exit of create_and_run_monitor_script: only the program is inspected
FailsEarly(cmd) == Contains(cmd.program, Sentinel)

\* variant: the script echoes "done" after a success
MonitorStatus_Done(code) == IF code = 0 THEN <<"done", "\n">> ELSE <<"failed", "\n">>

\* variant: only the codes above 1 count as failures
MonitorStatus_OneIsSuccess(code) == IF code <= 1 THEN <<"success", "\n">> ELSE <<"failed", "\n">>

\* the line the monitor script echoes into job.status for an exit code
MonitorStatus(code) == IF code = 0 THEN <<"success", "\n">> ELSE <<"failed", "\n">>

\* The pids the operating system can hand out: those with no process table
\* entry.  It hands out any of them.
FreePids == {p \in Pids : ~proc[p].alive}

RECURSIVE Sum(_, _)
Sum(f, S) == IF S = {} THEN 0 ELSE LET x == CHOOSE y \in S : TRUE IN f[x] + Sum(f, S \ {x})

\* monitor subshells that have not finished
Monitors == executing + Sum(touching, ExitCodes)

\* invoker i is inside run_if_needed
Active(i) == inv[i].pc \notin {"idle", "done", "report", "shown"}

\* no invocation is at a return point, of run_if_needed or of run
Quiet == \A i \in Invokers : inv[i].pc \notin {"done", "shown"}
ActiveCount == Cardinality({i \in Invokers : Active(i)})
\* invocations in progress that have not reached the launcher yet
Pending == Cardinality({i \in Invokers : Active(i) /\ inv[i].spawned = None})

\* the invocation returns: its result is recorded
Return(rec, kind, err, dur) ==
    [rec EXCEPT !.pc = "done", !.kind = kind, !.err = err, !.dur = dur]

\* variant: a failed create_dir_all is recorded as a failed run
Begin_DirErrorRecorded(i) ==
    /\ Quiet
    /\ inv[i].pc = "idle"
    /\ i = 2 => Active(1)
    /\ ~overlapped
    /\ Cardinality(FreePids) > Pending
    /\ Monitors + Pending < MaxProcs
    /\ \E created \in BOOLEAN :
         LET rec == [IdleInv EXCEPT
                        !.newJob = ~dirExists,
                        !.afterOk = (prev = "ok" /\ Monitors = 0),
                        !.afterFailed = (prev = "failed" /\ Monitors = 0)] IN
         \/ /\ dirExists \/ created
            /\ dirExists' = TRUE
            /\ statusFile' = statusFile
            /\ inv' = [inv EXCEPT ![i] =
                         IF GetStaleness = Panic
                         THEN Return(rec, "Panic", "panic", None)
                         ELSE [rec EXCEPT !.pc = "check1", !.staleness = GetStaleness]]
         \/ /\ ~dirExists /\ ~created
            /\ dirExists' = dirExists
            /\ statusFile' = File(StatusStr("Failed"))
            /\ inv' = [inv EXCEPT ![i] = Return(rec, "Err", "dir", None)]
    /\ prev' = "none"
    /\ overlapped' = (overlapped \/ ActiveCount > 0)
    /\ UNCHANGED <<esc, crossed, logFile, now, pidFile, lastRun, proc, executing, touching>>

\* ------------------------------------------------- run_if_needed, by steps
\* lines 178-181: create_dir_all, then get_staleness.  Invoker 2 stands for
\* an invocation that starts while another one is in progress.  max_age and
\* the command are fixed when the job is built; each is drawn where the code
\* first reads it (FreshTest, LaunchOk and LaunchErr).  An invocation starts
\* only if the model has a pid and a monitor left for it, and the model
\* follows one overlap: once an invocation has started while another was in
\* progress, the two are followed to their end and no further one starts.
Begin(i) ==
    /\ Quiet
    /\ inv[i].pc = "idle"
    /\ i = 2 => Active(1)
    /\ ~overlapped
    /\ Cardinality(FreePids) > Pending
    /\ Monitors + Pending < MaxProcs
    /\ \E created \in BOOLEAN :
         LET rec == [IdleInv EXCEPT
                        !.newJob = ~dirExists,
                        !.afterOk = (prev = "ok" /\ Monitors = 0),
                        !.afterFailed = (prev = "failed" /\ Monitors = 0)] IN
         \/ /\ dirExists \/ created
            /\ dirExists' = TRUE
            /\ inv' = [inv EXCEPT ![i] =
                         IF GetStaleness = Panic
                         THEN Return(rec, "Panic", "panic", None)
                         ELSE [rec EXCEPT !.pc = "check1", !.staleness = GetStaleness]]
         \/ /\ ~dirExists /\ ~created
            /\ dirExists' = dirExists
            /\ inv' = [inv EXCEPT ![i] = Return(rec, "Err", "dir", None)]
    /\ prev' = "none"
    /\ overlapped' = (overlapped \/ ActiveCount > 0)
    /\ UNCHANGED <<esc, crossed, logFile, now, pidFile, statusFile, lastRun, proc, executing, touching>>

\* variant: cleanup sets the Last-Run Marker to the time of the cleanup
Check1_CleanupTouchesLastRun(i) ==
    /\ Quiet
    /\ inv[i].pc = "check1"
    /\ IF GetRunningDuration = None /\ pidFile.exists
       THEN \/ /\ pidFile' = NoFile
               /\ lastRun' = now
               /\ inv' = [inv EXCEPT ![i].pc = "fresh"]
            \/ /\ pidFile' = pidFile      \* remove_file fails
               /\ lastRun' = lastRun
               /\ inv' = [inv EXCEPT ![i] = Return(inv[i], "Err", "cleanup", None)]
       ELSE /\ pidFile' = pidFile
            /\ lastRun' = lastRun
            /\ inv' = [inv EXCEPT ![i].pc = "fresh",
                                  ![i].seen = (GetRunningDuration # None)]
    /\ UNCHANGED <<esc, crossed, logFile, now, dirExists, statusFile, proc, executing, touching, prev, overlapped>>

\* variant: cleanup removes the Last-Run Marker along with the PID Marker
Check1_CleanupClearsLastRun(i) ==
    /\ Quiet
    /\ inv[i].pc = "check1"
    /\ IF GetRunningDuration = None /\ pidFile.exists
       THEN \/ /\ pidFile' = NoFile
               /\ lastRun' = None
               /\ inv' = [inv EXCEPT ![i].pc = "fresh"]
            \/ /\ pidFile' = pidFile      \* remove_file fails
               /\ lastRun' = lastRun
               /\ inv' = [inv EXCEPT ![i] = Return(inv[i], "Err", "cleanup", None)]
       ELSE /\ pidFile' = pidFile
            /\ lastRun' = lastRun
            /\ inv' = [inv EXCEPT ![i].pc = "fresh",
                                  ![i].seen = (GetRunningDuration # None)]
    /\ UNCHANGED <<esc, crossed, logFile, now, dirExists, statusFile, proc, executing, touching, prev, overlapped>>

\* variant: cleanup only when the PID Marker holds a pid
Check1_KeepsUnparsable(i) ==
    /\ Quiet
    /\ inv[i].pc = "check1"
    /\ IF GetRunningDuration = None /\ pidFile.exists /\ GetPid # None
       THEN \/ /\ pidFile' = NoFile
               /\ inv' = [inv EXCEPT ![i].pc = "fresh"]
            \/ /\ pidFile' = pidFile
               /\ inv' = [inv EXCEPT ![i] = Return(inv[i], "Err", "cleanup", None)]
       ELSE /\ pidFile' = pidFile
            /\ inv' = [inv EXCEPT ![i].pc = "fresh",
                                  ![i].seen = (GetRunningDuration # None)]
    /\ UNCHANGED <<esc, crossed, logFile, now, dirExists, statusFile, lastRun, proc, executing, touching, prev, overlapped>>

\* lines 184-191: get_running_duration; with no live process but a PID
\* Marker, cleanup (lines 449-468) removes the marker
Check1(i) ==
    /\ Quiet
    /\ inv[i].pc = "check1"
    /\ IF GetRunningDuration = None /\ pidFile.exists
       THEN \/ /\ pidFile' = NoFile
               /\ inv' = [inv EXCEPT ![i].pc = "fresh"]
            \/ /\ pidFile' = pidFile      \* remove_file fails
               /\ inv' = [inv EXCEPT ![i] = Return(inv[i], "Err", "cleanup", None)]
       ELSE /\ pidFile' = pidFile
            /\ inv' = [inv EXCEPT ![i].pc = "fresh",
                                  ![i].seen = (GetRunningDuration # None)]
    /\ UNCHANGED <<esc, crossed, logFile, now, dirExists, statusFile, lastRun, proc, executing, touching, prev, overlapped>>

\* variant: a Fresh result is recorded in the Status Marker
FreshTest_SavesStatus(i) ==
    /\ Quiet
    /\ inv[i].pc = "fresh"
    /\ \E maxAge \in MaxAges :
         LET rec == [inv[i] EXCEPT
                        !.maxAge = maxAge,
                        !.status = IF Recent(inv[i].staleness, maxAge)
                                   THEN GetJobStatus ELSE "unread"] IN
         IF IsFresh(rec.staleness, maxAge, GetJobStatus)
         THEN /\ inv' = [inv EXCEPT ![i] = Return(rec, "Fresh", "none", None)]
              /\ statusFile' = File(StatusStr("Success"))
         ELSE /\ inv' = [inv EXCEPT ![i] = [rec EXCEPT !.pc = "check2"]]
              /\ statusFile' = statusFile
    /\ UNCHANGED <<esc, crossed, logFile, now, dirExists, pidFile, lastRun, proc, executing, touching, prev, overlapped>>

\* variant: no Fresh while the process the PID Marker names is alive
FreshTest_NotWhileRunning(i) ==
    /\ Quiet
    /\ inv[i].pc = "fresh"
    /\ \E maxAge \in MaxAges :
         LET rec == [inv[i] EXCEPT
                        !.maxAge = maxAge,
                        !.status = IF Recent(inv[i].staleness, maxAge)
                                   THEN GetJobStatus ELSE "unread"] IN
         IF IsFresh(rec.staleness, maxAge, GetJobStatus) /\ GetRunningDuration = None
         THEN inv' = [inv EXCEPT ![i] = Return(rec, "Fresh", "none", None)]
         ELSE inv' = [inv EXCEPT ![i] = [rec EXCEPT !.pc = "check2"]]
    /\ UNCHANGED <<esc, crossed, logFile, now, dirExists, pidFile, statusFile, lastRun, proc, executing, touching, prev, overlapped>>

\* lines 193-207: Fresh only if recent and the last run succeeded
FreshTest(i) ==
    /\ Quiet
    /\ inv[i].pc = "fresh"
    /\ \E maxAge \in MaxAges :
         LET rec == [inv[i] EXCEPT
                        !.maxAge = maxAge,
                        !.status = IF Recent(inv[i].staleness, maxAge)
                                   THEN GetJobStatus ELSE "unread"] IN
         IF IsFresh(rec.staleness, maxAge, GetJobStatus)
         THEN inv' = [inv EXCEPT ![i] = Return(rec, "Fresh", "none", None)]
         ELSE inv' = [inv EXCEPT ![i] = [rec EXCEPT !.pc = "check2"]]
    /\ UNCHANGED <<esc, crossed, logFile, now, dirExists, pidFile, statusFile, lastRun, proc, executing, touching, prev, overlapped>>

\* variant: an error of the write of "running" is returned to the caller
Check2_WriteErrorReturned(i) ==
    /\ Quiet
    /\ inv[i].pc = "check2"
    /\ LET d == GetRunningDuration IN
       IF d # None
       THEN \E written \in BOOLEAN :
              IF written
              THEN /\ statusFile' = File(StatusStr("Running"))
                   /\ inv' = [inv EXCEPT ![i] = Return(inv[i], "Stale", "none", d)]
              ELSE /\ statusFile' = statusFile
                   /\ inv' = [inv EXCEPT ![i] = Return(inv[i], "Err", "status", None)]
       ELSE /\ statusFile' = statusFile
            /\ inv' = [inv EXCEPT ![i].pc = "launch"]
    /\ UNCHANGED <<esc, crossed, logFile, now, dirExists, pidFile, lastRun, proc, executing, touching, prev, overlapped>>

\* variant: no second liveness check, a stale job is always launched
Check2_NoLivenessCheck(i) ==
    /\ Quiet
    /\ inv[i].pc = "check2"
    /\ inv' = [inv EXCEPT ![i].pc = "launch"]
    /\ UNCHANGED <<esc, crossed, logFile, now, dirExists, pidFile, statusFile, lastRun, proc, executing, touching, prev, overlapped>>

\* lines 209-220: stale but already running; the write of "running" may fail
\* and its error is dropped
Check2(i) ==
    /\ Quiet
    /\ inv[i].pc = "check2"
    /\ LET d == GetRunningDuration IN
       IF d # None
       THEN /\ \E written \in BOOLEAN :
                 statusFile' = IF written THEN File(StatusStr("Running")) ELSE statusFile
            /\ inv' = [inv EXCEPT ![i] = Return(inv[i], "Stale", "none", d)]
       ELSE /\ statusFile' = statusFile
            /\ inv' = [inv EXCEPT ![i].pc = "launch"]
    /\ UNCHANGED <<esc, crossed, logFile, now, dirExists, pidFile, lastRun, proc, executing, touching, prev, overlapped>>

\* lines 223 and 245-294, Ok: /bin/bash is spawned and its pid returned; all
\* it runs is "( ... ) &", which puts the monitor subshell in the background
LaunchOk(i) ==
    /\ Quiet
    /\ inv[i].pc = "launch"
    /\ \E cmd \in Commands, pid \in FreePids :
         /\ ~FailsEarly(cmd)
         /\ proc' = [proc EXCEPT ![pid] = [alive |-> TRUE, start |-> now]]
         /\ executing' = executing + 1
         /\ inv' = [inv EXCEPT ![i].cmd = cmd, ![i].spawned = pid, ![i].pc = "savepid"]
    /\ prev' = IF Monitors = 0 THEN "solo" ELSE "shared"
    /\ UNCHANGED <<esc, crossed, logFile, now, dirExists, pidFile, statusFile, lastRun, touching, overlapped>>

\* lines 223, 245-251, 290 and 234-238, Err: the sentinel program name, or a
\* spawn of /bin/bash that fails; "failed" is written, an error of that write
\* is dropped
LaunchErr(i) ==
    /\ Quiet
    /\ inv[i].pc = "launch"
    /\ \E cmd \in Commands, spawnFails \in BOOLEAN, written \in BOOLEAN :
         /\ FailsEarly(cmd) \/ spawnFails
         /\ statusFile' = IF written THEN File(StatusStr("Failed")) ELSE statusFile
         /\ inv' = [inv EXCEPT ![i] = Return([inv[i] EXCEPT !.cmd = cmd], "Err", "spawn", None)]
    /\ UNCHANGED <<esc, crossed, logFile, now, dirExists, pidFile, lastRun, proc, executing, touching, prev, overlapped>>

\* The pids other invocations have been handed and have yet to record.
Held(i) == {inv[j].spawned : j \in {k \in Invokers \ {i} : inv[k].pc = "savepid"}}

\* The process table without the processes that no marker and no invocation
\* can name any more: nothing reads them again.
Tracked(keep) ==
    [p \in Pids |-> IF p \in keep THEN proc[p] ELSE [alive |-> FALSE, start |-> None]]

\* line 225: save_pid
SavePid(i) ==
    /\ Quiet
    /\ inv[i].pc = "savepid"
    /\ \E written \in BOOLEAN :
         IF written
         THEN /\ pidFile' = File(PidToString(inv[i].spawned))
              /\ proc' = Tracked({inv[i].spawned} \cup Held(i))
              /\ inv' = [inv EXCEPT ![i].pc = "saverunning", ![i].seen = FALSE]
         ELSE /\ pidFile' = pidFile
              /\ proc' = Tracked({GetPid} \cup Held(i))
              /\ inv' = [inv EXCEPT ![i] = Return(inv[i], "Err", "pid", None)]
    /\ UNCHANGED <<esc, crossed, logFile, now, dirExists, statusFile, lastRun, executing, touching, prev, overlapped>>

\* lines 227-232: save_job_status(Running), then Stale(staleness, 0)
SaveRunning(i) ==
    /\ Quiet
    /\ inv[i].pc = "saverunning"
    /\ \E written \in BOOLEAN :
         IF written
         THEN /\ statusFile' = File(StatusStr("Running"))
              /\ inv' = [inv EXCEPT ![i] = Return(inv[i], "Stale", "none", 0)]
         ELSE /\ statusFile' = statusFile
              /\ inv' = [inv EXCEPT ![i] = Return(inv[i], "Err", "status", None)]
    /\ UNCHANGED <<esc, crossed, logFile, now, dirExists, pidFile, lastRun, proc, executing, touching, prev, overlapped>>

\* ------------------------------------------------------- the monitor script
\* variant: the script touches job.last_run first and echoes the status last
MonitorWriteStatus_TouchFirst ==
    /\ Quiet
    /\ executing > 0
    /\ \E code \in ExitCodes :
         /\ executing' = executing - 1
         /\ touching' = [touching EXCEPT ![code] = @ + 1]
         /\ lastRun' = now
         /\ statusFile' = statusFile
         /\ prev' = IF prev = "solo" THEN (IF code = 0 THEN "ok" ELSE "failed") ELSE prev
    /\ logFile' = TRUE
    /\ crossed' = (crossed \/ Sum(touching, ExitCodes) > 0)
    /\ UNCHANGED <<esc, now, dirExists, pidFile, proc, inv, overlapped>>

\* line 269: the command ends with some exit code, its output in job.logs,
\* and the subshell echoes success or failed into job.status
MonitorWriteStatus ==
    /\ Quiet
    /\ executing > 0
    /\ \E code \in ExitCodes :
         /\ executing' = executing - 1
         /\ touching' = [touching EXCEPT ![code] = @ + 1]
         /\ statusFile' = File(MonitorStatus(code))
         /\ prev' = IF prev = "solo" THEN (IF code = 0 THEN "ok" ELSE "failed") ELSE prev
    /\ logFile' = TRUE
    /\ crossed' = (crossed \/ Sum(touching, ExitCodes) > 0)
    /\ UNCHANGED <<esc, now, dirExists, pidFile, lastRun, proc, inv, overlapped>>

\* variant: the Last-Run Marker is touched only after a success
MonitorTouchOf_OnlyOnSuccess(code) ==
    /\ Quiet
    /\ code = 0
    /\ touching[code] > 0
    /\ touching' = [touching EXCEPT ![code] = @ - 1]
    /\ lastRun' = now
    /\ crossed' = (crossed \/ Sum(touching, ExitCodes) > 0)
    /\ UNCHANGED <<esc, logFile, now, dirExists, pidFile, statusFile, proc, executing, prev, inv, overlapped>>

\* line 269: touch job.last_run, the last step of the subshell, whatever
\* the exit code was
MonitorTouchOf(code) ==
    /\ Quiet
    /\ touching[code] > 0
    /\ touching' = [touching EXCEPT ![code] = @ - 1]
    /\ lastRun' = now
    /\ crossed' = (crossed /\ Monitors > 1)
    /\ UNCHANGED <<esc, logFile, now, dirExists, pidFile, statusFile, proc, executing, prev, inv, overlapped>>

MonitorTouch == \E code \in ExitCodes : MonitorTouchOf(code)

\* A monitor subshell is killed, or the machine goes down, while the command
\* runs: the rest of the script of line 269 is never run, nothing is written.
MonitorDies ==
    /\ Quiet
    /\ executing > 0
    /\ executing' = executing - 1
    /\ prev' = IF prev = "solo" THEN "died" ELSE prev
    /\ crossed' = (crossed /\ Monitors > 1)
    /\ UNCHANGED <<esc, logFile, now, dirExists, pidFile, statusFile, lastRun, proc, touching, inv, overlapped>>

\* The spawned /bin/bash has nothing left to run once the subshell is in the
\* background: it exits, and its entry leaves the process table when it is
\* reaped (at the latest when the invoking process exits).
WrapperGone(p) ==
    /\ Quiet
    /\ proc[p].alive
    /\ proc' = [proc EXCEPT ![p] = [alive |-> FALSE, start |-> None]]
    /\ UNCHANGED <<esc, crossed, logFile, now, dirExists, pidFile, statusFile, lastRun, executing, touching, prev, inv, overlapped>>

\* ---------------------------------------------------------------- run()
JobName == "test_job"

\* line 142: format!("Background Job '{}'", self.name)
Title == <<"Background Job '", JobName, "'">>

\* humantime::format_duration, for durations below one minute: "0s", "7s"
FormatDuration(d) == PidToString(d) \o <<"s">>

\* lines 370-374: the time of day the job last ran, %H:%M:%S, the clock of
\* the model counting seconds from midnight
FormatLastRunTime(staleness) ==
    LET t == now - staleness IN
    <<"00", ":", "00", ":">> \o (IF t < 10 THEN <<"0">> ELSE << >>) \o PidToString(t)

\* lines 313-367: create_status_subtitle
CreateStatusSubtitle(staleness, dur, status) ==
    LET runningInfo == <<"running for ">> \o FormatDuration(dur) IN
    IF staleness = None THEN <<"First run, ">> \o runningInfo
    ELSE CASE status = "Success" ->
                <<"Last succeeded ">> \o FormatDuration(staleness) \o <<" ago (">>
                    \o FormatLastRunTime(staleness) \o <<"), ">> \o runningInfo
           [] status = "Failed" ->
                <<"Last failed ">> \o FormatDuration(staleness) \o <<" ago (">>
                    \o FormatLastRunTime(staleness) \o <<"), ">> \o runningInfo
           [] status = "Running" ->
                <<"Last ran ">> \o FormatDuration(staleness) \o <<" ago (">>
                    \o FormatLastRunTime(staleness) \o <<"), ">> \o runningInfo
           [] OTHER ->
                <<"Last run ">> \o FormatDuration(staleness)
                    \o <<" ago (status unknown), ">> \o runningInfo

\* lines 377-400: get_status_icon
GetStatusIcon(status, staleness) ==
    CASE status = "Success" -> "ICON_ACTIONS"
      [] status = "Failed" -> "ICON_ALERT_STOP"
      [] status = "Running" -> IF staleness # None THEN "ICON_SYNC" ELSE "ICON_CLOCK"
      [] OTHER -> "ICON_GENERIC_QUESTION_MARK"

\* the message of the error run_if_needed returned
ErrorMessage(err) == <<err>>

\* variant: the item for a Stale result is left actionable, and a Fresh
\* result is reported with an item too
ItemFor_Actionable(kind, staleness, dur, status, err) ==
    CASE kind = "Err" ->
           [some |-> TRUE, title |-> Title,
            subtitle |-> <<"Error starting job: ">> \o ErrorMessage(err),
            icon |-> "", valid |-> "unset"]
      [] OTHER ->
           [some |-> TRUE, title |-> Title,
            subtitle |-> IF kind = "Stale" THEN CreateStatusSubtitle(staleness, dur, status)
                         ELSE << >>,
            icon |-> GetStatusIcon(status, staleness), valid |-> "unset"]

\* lines 110-174: the match of run() on the result of run_if_needed; status
\* is the one read at line 122
ItemFor(kind, staleness, dur, status, err) ==
    CASE kind = "Fresh" -> NoItem
      [] kind = "Stale" ->
           [some |-> TRUE, title |-> Title,
            subtitle |-> CreateStatusSubtitle(staleness, dur, status),
            icon |-> GetStatusIcon(status, staleness), valid |-> "false"]
      [] OTHER ->
           [some |-> TRUE, title |-> Title,
            subtitle |-> <<"Error starting job: ">> \o ErrorMessage(err),
            icon |-> "", valid |-> "unset"]

\* What run() keeps of a returned invocation: the result, and what is known
\* of the invocation before it.
Result(rec) ==
    [IdleInv EXCEPT !.kind = rec.kind, !.err = rec.err, !.staleness = rec.staleness,
                    !.dur = rec.dur, !.afterOk = rec.afterOk, !.afterFailed = rec.afterFailed,
                    !.status = rec.status]

\* run_if_needed has returned into run().  A return and its Exit are one
\* moment: no other step is taken in between (Quiet), so that a result is
\* seen in the state it was returned in.  For Stale, run() goes on to read
\* the status (line 122); for Fresh and Err it returns at once; a panic
\* ends the calling process.
Exit(i) ==
    /\ inv[i].pc = "done"
    /\ inv' = [inv EXCEPT ![i] =
                 CASE inv[i].kind = "Stale" -> [Result(inv[i]) EXCEPT !.pc = "report"]
                   [] inv[i].kind = "Panic" -> IdleInv
                   [] OTHER -> [Result(inv[i]) EXCEPT
                                  !.pc = "shown",
                                  !.item = ItemFor(inv[i].kind, inv[i].staleness,
                                                   inv[i].dur, "Unknown", inv[i].err)]]
    /\ UNCHANGED <<esc, crossed, logFile, now, dirExists, pidFile, statusFile, lastRun, proc, executing, touching, prev, overlapped>>

\* lines 120-166: get_job_status again, then the item for a Stale result
Report(i) ==
    /\ Quiet
    /\ inv[i].pc = "report"
    /\ inv' = [inv EXCEPT ![i] =
                 [inv[i] EXCEPT !.pc = "shown",
                                !.item = ItemFor("Stale", inv[i].staleness, inv[i].dur,
                                                 GetJobStatus, inv[i].err)]]
    /\ UNCHANGED <<esc, crossed, logFile, now, dirExists, pidFile, statusFile, lastRun, proc, executing, touching, prev, overlapped>>

\* run() has returned its item to the caller
Shown(i) ==
    /\ inv[i].pc = "shown"
    /\ inv' = [inv EXCEPT ![i] = IdleInv]
    /\ UNCHANGED <<esc, crossed, logFile, now, dirExists, pidFile, statusFile, lastRun, proc, executing, touching, prev, overlapped>>

\* time passes
Tick ==
    /\ Quiet
    /\ now < MaxTime
    /\ now' = now + 1
    /\ UNCHANGED <<esc, crossed, logFile, dirExists, pidFile, statusFile, lastRun, proc, executing, touching, prev, inv, overlapped>>

\* Invocations one after the other, each concurrent with the monitors.
Next ==
    \/ Begin(1)
    \/ \E i \in Invokers : Check1(i)
    \/ \E i \in Invokers : FreshTest(i)
    \/ \E i \in Invokers : Check2(i)
    \/ \E i \in Invokers : LaunchOk(i)
    \/ \E i \in Invokers : LaunchErr(i)
    \/ \E i \in Invokers : SavePid(i)
    \/ \E i \in Invokers : SaveRunning(i)
    \/ \E i \in Invokers : Exit(i)
    \/ \E i \in Invokers : Report(i)
    \/ \E i \in Invokers : Shown(i)
    \/ MonitorWriteStatus
    \/ MonitorTouch
    \/ \E p \in Pids : WrapperGone(p)
    \/ Tick

Spec == Init /\ [][Next]_vars

\* The same, with the scheduling the operating system gives: a monitor
\* subshell whose command ends gets to run its next step again and again
\* until it takes it, and a call that has reached its return returns.
SpecLive ==
    /\ Spec
    /\ SF_vars(MonitorWriteStatus)
    /\ \A code \in ExitCodes : SF_vars(MonitorTouchOf(code))
    /\ \A i \in Invokers : WF_vars(Exit(i)) /\ WF_vars(Shown(i))

\* What a job.status found in the directory may hold: nothing the code wrote.
FoundStatusFiles ==
    {NoFile, File(<< >>), File(<<"Success", "\n">>), File(<<" ", "failed", "\n">>)}

\* What a job.pid found in the directory may hold: no pid at all, or a pid
\* written before (by a run before a reboot, say).
FoundPidFiles == {NoFile, File(<<"x", "\n">>), File(PidToString(PidBase + 1))}

\* The process table then: nothing under the pids of interest, or a process
\* that has nothing to do with the job under the pid a found job.pid holds.
FoundProcs ==
    {[p \in Pids |-> [alive |-> FALSE, start |-> None]],
     [p \in Pids |-> IF p = PidBase + 1 THEN [alive |-> TRUE, start |-> 0]
                                        ELSE [alive |-> FALSE, start |-> None]]}

\* The same, for a job directory found as it is: a Last-Run Marker whose
\* mtime need not lie in the past (a clock set back, a restored directory),
\* a Status Marker and a PID Marker that hold anything.
InitSkew ==
    /\ now = 0
    /\ dirExists = TRUE
    /\ pidFile \in FoundPidFiles
    /\ statusFile \in FoundStatusFiles
    /\ lastRun \in 0..MaxTime
    /\ proc \in FoundProcs
    /\ executing = 0
    /\ touching = [c \in ExitCodes |-> 0]
    /\ prev = "none"
    /\ inv = [i \in Invokers |-> IdleInv]
    /\ overlapped = FALSE
    /\ logFile = FALSE
    /\ crossed = FALSE
    /\ esc = NoEsc

SpecSkew == InitSkew /\ [][Next]_vars

\* Two invocations that overlap: a second one may start while one is in
\* progress.  Overlapping invocations are moments apart, so the clock, which
\* counts seconds, stands still in these runs.
NextOverlap ==
    \/ \E i \in Invokers : Begin(i)
    \/ \E i \in Invokers : Check1(i)
    \/ \E i \in Invokers : FreshTest(i)
    \/ \E i \in Invokers : Check2(i)
    \/ \E i \in Invokers : LaunchOk(i)
    \/ \E i \in Invokers : LaunchErr(i)
    \/ \E i \in Invokers : SavePid(i)
    \/ \E i \in Invokers : SaveRunning(i)
    \/ \E i \in Invokers : Exit(i)
    \/ \E i \in Invokers : Report(i)
    \/ \E i \in Invokers : Shown(i)
    \/ MonitorWriteStatus
    \/ MonitorTouch
    \/ \E p \in Pids : WrapperGone(p)

SpecOverlap == Init /\ [][NextOverlap]_vars

\* Invocations one after the other, each less than a second after the one
\* before: the clock, which counts seconds, stands still.  Scheduling as in
\* SpecLive.
NextSteady ==
    \/ Begin(1)
    \/ \E i \in Invokers : Check1(i)
    \/ \E i \in Invokers : FreshTest(i)
    \/ \E i \in Invokers : Check2(i)
    \/ \E i \in Invokers : LaunchOk(i)
    \/ \E i \in Invokers : LaunchErr(i)
    \/ \E i \in Invokers : SavePid(i)
    \/ \E i \in Invokers : SaveRunning(i)
    \/ \E i \in Invokers : Exit(i)
    \/ \E i \in Invokers : Report(i)
    \/ \E i \in Invokers : Shown(i)
    \/ MonitorWriteStatus
    \/ MonitorTouch
    \/ \E p \in Pids : WrapperGone(p)

SpecSteady ==
    /\ Init /\ [][NextSteady]_vars
    /\ SF_vars(MonitorWriteStatus)
    /\ \A code \in ExitCodes : SF_vars(MonitorTouchOf(code))
    /\ \A i \in Invokers : WF_vars(Exit(i)) /\ WF_vars(Shown(i))

\* Invocations one after the other, with monitors that may die before their
\* command ends.
NextCrash ==
    \/ Begin(1)
    \/ \E i \in Invokers : Check1(i)
    \/ \E i \in Invokers : FreshTest(i)
    \/ \E i \in Invokers : Check2(i)
    \/ \E i \in Invokers : LaunchOk(i)
    \/ \E i \in Invokers : LaunchErr(i)
    \/ \E i \in Invokers : SavePid(i)
    \/ \E i \in Invokers : SaveRunning(i)
    \/ \E i \in Invokers : Exit(i)
    \/ \E i \in Invokers : Report(i)
    \/ \E i \in Invokers : Shown(i)
    \/ MonitorWriteStatus
    \/ MonitorTouch
    \/ MonitorDies
    \/ \E p \in Pids : WrapperGone(p)
    \/ Tick

SpecCrash == Init /\ [][NextCrash]_vars

\* ------------------------------------------- the command line of the monitor
\* Strings are sequences of characters here.
MaxTokenLen == 2     \* characters in a token
MaxArgs == 2         \* arguments after the program

\* two characters written by name: the backtick, and a letter that is not
\* ASCII (e with an acute accent)
Backtick == "backtick"
EAcute == "e-acute"

AsciiLetters ==
    {"a", "b", "c", "d", "e", "f", "g", "h", "i", "j", "k", "l", "m",
     "n", "o", "p", "q", "r", "s", "t", "u", "v", "w", "x", "y", "z",
     "A", "B", "C", "D", "E", "F", "G", "H", "I", "J", "K", "L", "M",
     "N", "O", "P", "Q", "R", "S", "T", "U", "V", "W", "X", "Y", "Z"}
AsciiDigits == {DigitChars[k] : k \in 1..10}

\* line 29: c.is_ascii_alphanumeric() || c == '-' || c == '_' || c == '.' || c == '/'
IsSafeChar(c) == c \in AsciiLetters \cup AsciiDigits \cup {"-", "_", ".", "/"}

\* str::replace of a character by a string
RECURSIVE ReplaceChar(_, _, _)
ReplaceChar(s, c, to) ==
    IF s = << >> THEN << >>
    ELSE (IF Head(s) = c THEN to ELSE <<Head(s)>>) \o ReplaceChar(Tail(s), c, to)

\* variant: the empty token is emitted as nothing
ShellEscape_EmptyIsNothing(s) ==
    IF s = << >> THEN << >>
    ELSE IF \A k \in DOMAIN s : IsSafeChar(s[k]) THEN s
    ELSE <<"'">> \o ReplaceChar(s, "'", <<"'", "\"", "'", "\"", "'">>) \o <<"'">>

\* variant: an embedded single quote is escaped with a backslash
ShellEscape_BackslashQuote(s) ==
    IF s = << >> THEN <<"'", "'">>
    ELSE IF \A k \in DOMAIN s : IsSafeChar(s[k]) THEN s
    ELSE <<"'">> \o ReplaceChar(s, "'", <<"\\", "'">>) \o <<"'">>

\* lines 20-35: shell_escape
ShellEscape(s) ==
    IF s = << >> THEN <<"'", "'">>
    ELSE IF \A k \in DOMAIN s : IsSafeChar(s[k]) THEN s
    ELSE <<"'">> \o ReplaceChar(s, "'", <<"'", "\"", "'", "\"", "'">>) \o <<"'">>

\* lines 253-261: the program, then the arguments in order, each escaped
CmdParts(tokens) == [k \in DOMAIN tokens |-> ShellEscape(tokens[k])]

\* line 261: cmd_parts.join(" ")
RECURSIVE Join(_)
Join(parts) ==
    IF parts = << >> THEN << >>
    ELSE IF Len(parts) = 1 THEN parts[1]
    ELSE parts[1] \o <<" ">> \o Join(Tail(parts))

\* What /bin/bash makes of the command string (lines 268-290): the words it
\* splits it into, by the quoting rules of the POSIX shell.  Outside quotes
\* blanks separate words, a backslash keeps the next character, "$" and Backtick
\* start an expansion and the operator characters end the command; inside
\* single quotes every character stands for itself; inside double quotes
\* "$", Backtick and a backslash before one of $ ` " \ keep their meaning.  A word
\* that underwent an expansion, or was cut by an operator, carries a mark that
\* is no character.
Expanded == "<expanded>"
Operator == "<operator>"
Unterminated == "<unterminated>"
Blanks == {" ", "\t", "\n"}
Operators == {";", "&", "|", "<", ">", "(", ")", "*", "?", "~", "#", "!", "{", "}", "[", "]"}

RECURSIVE ShellWords(_, _, _, _, _, _)
ShellWords(s, k, mode, word, inWord, words) ==
    IF k > Len(s)
    THEN IF mode # "plain" THEN Append(words, Append(word, Unterminated))
         ELSE IF inWord THEN Append(words, word) ELSE words
    ELSE LET c == s[k] IN
      CASE mode = "single" ->
             IF c = "'" THEN ShellWords(s, k + 1, "plain", word, TRUE, words)
             ELSE ShellWords(s, k + 1, "single", Append(word, c), TRUE, words)
        [] mode = "double" ->
             IF c = "\"" THEN ShellWords(s, k + 1, "plain", word, TRUE, words)
             ELSE IF c \in {"$", Backtick}
             THEN ShellWords(s, k + 1, "double", Append(word, Expanded), TRUE, words)
             ELSE IF c = "\\" /\ k < Len(s) /\ s[k + 1] \in {"$", Backtick, "\"", "\\"}
             THEN ShellWords(s, k + 2, "double", Append(word, s[k + 1]), TRUE, words)
             ELSE ShellWords(s, k + 1, "double", Append(word, c), TRUE, words)
        [] OTHER ->
             IF c \in Blanks
             THEN ShellWords(s, k + 1, "plain", << >>, FALSE,
                             IF inWord THEN Append(words, word) ELSE words)
             ELSE IF c = "'" THEN ShellWords(s, k + 1, "single", word, TRUE, words)
             ELSE IF c = "\"" THEN ShellWords(s, k + 1, "double", word, TRUE, words)
             ELSE IF c = "\\"
             THEN IF k < Len(s)
                  THEN ShellWords(s, k + 2, "plain", Append(word, s[k + 1]), TRUE, words)
                  ELSE Append(words, Append(word, Unterminated))
             ELSE IF c \in {"$", Backtick}
             THEN ShellWords(s, k + 1, "plain", Append(word, Expanded), TRUE, words)
             ELSE IF c \in Operators
             THEN ShellWords(s, k + 1, "plain", Append(word, Operator), TRUE, words)
             ELSE ShellWords(s, k + 1, "plain", Append(word, c), TRUE, words)

ShellSplit(s) == ShellWords(s, 1, "plain", << >>, FALSE, << >>)

\* The tokens looked at.  One token at a time over characters of every
\* kind the escaper tells apart; a program with its arguments over the
\* characters that matter to the shell.
RECURSIVE SeqsUpTo(_, _)
SeqsUpTo(S, n) ==
    IF n = 0 THEN {<< >>}
    ELSE LET shorter == SeqsUpTo(S, n - 1) IN
         shorter \cup {Append(t, c) : t \in shorter, c \in S}

EscapeChars ==
    {"a", "Z", "7", "-", "_", ".", "/", "'", " ", "$", Backtick, "\"", "\\", ";", EAcute}
RoundTripChars == {"a", "'", Backtick, "$", " ", "\""}
EscapeTokens == SeqsUpTo(EscapeChars, MaxTokenLen)
RoundTripTokens == SeqsUpTo(RoundTripChars, MaxTokenLen)
CommandLines ==
    {<<t>> : t \in EscapeTokens}
        \cup {cl \in SeqsUpTo(RoundTripTokens, MaxArgs + 1) : cl # << >>}

InitEscape ==
    /\ now = 0
    /\ dirExists = TRUE
    /\ pidFile = NoFile
    /\ statusFile = NoFile
    /\ lastRun = None
    /\ proc = [p \in Pids |-> [alive |-> FALSE, start |-> None]]
    /\ executing = 0
    /\ touching = [c \in ExitCodes |-> 0]
    /\ prev = "none"
    /\ inv = [i \in Invokers |-> IdleInv]
    /\ overlapped = FALSE
    /\ logFile = FALSE
    /\ crossed = FALSE
    /\ \E tokens \in CommandLines : esc = [NoEsc EXCEPT !.step = "command", !.tokens = tokens]

\* lines 253-261: the launcher escapes the tokens and joins them
BuildCmdString ==
    /\ esc.step = "command"
    /\ esc' = [esc EXCEPT !.step = "built",
                          !.parts = CmdParts(esc.tokens),
                          !.cmdString = Join(CmdParts(esc.tokens))]
    /\ UNCHANGED <<crossed, logFile, now, dirExists, pidFile, statusFile, lastRun, proc, executing, touching,
                   prev, inv, overlapped>>

\* lines 268-290: /bin/bash reads the command string
ShellReads ==
    /\ esc.step = "built"
    /\ esc' = [esc EXCEPT !.step = "split", !.words = ShellSplit(esc.cmdString)]
    /\ UNCHANGED <<crossed, logFile, now, dirExists, pidFile, statusFile, lastRun, proc, executing, touching,
                   prev, inv, overlapped>>

NextEscape == BuildCmdString \/ ShellReads

SpecEscape == InitEscape /\ [][NextEscape]_vars

\* ------------------------------------------------ reading a finished invocation
\* the invocation of invoker i has returned
Returned(i) == inv[i].pc = "done"

\* it returned Stale for a job found running (line 219): nothing was spawned
FoundRunning(i) == inv[i].kind = "Stale" /\ inv[i].spawned = None

\* ================================================================== claims

\* ---- C1 ----
\* C1 as stated: the first invocation for a job whose directory was never
\* created does not return Fresh, and either spawns a monitor and returns
\* Stale(None, 0) or returns the error of the spawn.
C1_AsStated ==
    \A i \in Invokers :
        (Returned(i) /\ inv[i].newJob) =>
            /\ inv[i].kind # "Fresh"
            /\ \/ inv[i].spawned # None /\ inv[i].kind = "Stale"
                  /\ inv[i].staleness = None /\ inv[i].dur = 0
               \/ inv[i].spawned = None /\ inv[i].kind = "Err" /\ inv[i].err = "spawn"

\* C1, amended: with invocations one after the other, the first invocation
\* for a job whose directory was never created does not return Fresh.  If the
\* directory cannot be created it returns that error and launches nothing.
\* Otherwise it invokes the launcher: either nothing is spawned and the spawn
\* error is returned, or a monitor is spawned and the result is Stale(None, 0)
\* or the error of the PID Marker or Status Marker write after the spawn.
C1_FirstInvocationLaunches ==
    \A i \in Invokers :
        (Returned(i) /\ inv[i].newJob) =>
            /\ inv[i].kind # "Fresh"
            /\ \/ inv[i].kind = "Err" /\ inv[i].err = "dir" /\ inv[i].spawned = None
               \/ inv[i].kind = "Err" /\ inv[i].err = "spawn" /\ inv[i].spawned = None
               \/ inv[i].spawned # None /\ inv[i].kind = "Stale"
                  /\ inv[i].staleness = None /\ inv[i].dur = 0
               \/ inv[i].spawned # None /\ inv[i].kind = "Err"
                  /\ inv[i].err \in {"pid", "status"}

\* a first invocation has spawned a monitor and returned Stale(None, 0)
C1_Witness ==
    \E i \in Invokers :
        /\ Returned(i) /\ inv[i].newJob
        /\ inv[i].kind = "Stale" /\ inv[i].spawned # None
        /\ inv[i].staleness = None /\ inv[i].dur = 0

C2_WitnessNoMarker ==
    \E i \in Invokers :
        /\ Returned(i) /\ inv[i].kind = "Fresh" /\ inv[i].spawned = None
        /\ ~pidFile.exists

C4_NoSecondMonitor ==
    [][\A i \in Invokers :
          ( /\ ~overlapped
            /\ Active(i) /\ inv[i].spawned = None
            /\ executing > 0 ) =>
              ( /\ executing' <= executing
                /\ pidFile' = pidFile
                /\ inv'[i].pc = "done" =>
                     ( /\ inv'[i].kind = "Stale"
                       /\ inv'[i].dur # None
                       /\ inv'[i].spawned = None ) )]_vars

\* ---- C5 ----
\* C5: after an invocation has spawned a monitor, alone at work, whose
\* command exited with code 0 and which has touched the Last-Run Marker, the
\* next invocation, if its staleness is below max_age, reads success from
\* the Status Marker, returns Fresh and spawns nothing.
C5_FreshAfterSuccessfulRun ==
    [][\A i \in Invokers :
          ( /\ inv[i].pc = "fresh" /\ inv'[i].pc # "fresh"
            /\ inv[i].afterOk
            /\ inv[i].staleness # None
            /\ inv[i].staleness < inv'[i].maxAge ) =>
              ( /\ statusFile.exists
                /\ Trim(statusFile.content) = <<"success">>
                /\ inv'[i].pc = "done"
                /\ inv'[i].kind = "Fresh"
                /\ executing' = executing /\ proc' = proc )]_vars

\* ---- C6 ----
\* C6 as stated: an invocation whose staleness is at least max_age and which
\* finds no live process recorded in the PID Marker spawns a new monitor,
\* whatever the Status Marker reads.
C6_AsStated ==
    \A i \in Invokers :
        ( /\ Returned(i)
          /\ inv[i].staleness # None
          /\ inv[i].maxAge # None => inv[i].staleness >= inv[i].maxAge
          /\ ~FoundRunning(i) ) =>
            inv[i].spawned # None

\* C6, amended: such an invocation never returns Fresh, whatever the Status
\* Marker reads; it spawns a new monitor unless the removal of a PID Marker
\* that names no live process fails or the launcher fails, and it then
\* returns that error.
C6_StaleJobsAreLaunched ==
    \A i \in Invokers :
        ( /\ Returned(i)
          /\ inv[i].staleness # None
          /\ inv[i].maxAge # None => inv[i].staleness >= inv[i].maxAge
          /\ ~FoundRunning(i) ) =>
            /\ inv[i].kind # "Fresh"
            /\ \/ inv[i].spawned # None
               \/ inv[i].kind = "Err" /\ inv[i].err = "spawn" /\ inv[i].spawned = None
               \/ inv[i].kind = "Err" /\ inv[i].err = "cleanup" /\ inv[i].spawned = None
                  /\ inv[i].maxAge = None

\* a monitor has just been spawned for a job whose staleness had reached
\* max_age while its Status Marker still reads success
C6_Witness ==
    \E i \in Invokers :
        /\ inv[i].pc = "savepid" /\ inv[i].spawned # None
        /\ inv[i].staleness # None /\ inv[i].maxAge # None
        /\ inv[i].staleness >= inv[i].maxAge
        /\ statusFile.exists /\ Trim(statusFile.content) = <<"success">>

C8_AsStated ==
    [][\A i \in Invokers :
          ( /\ inv[i].pc = "launch"
            /\ inv'[i].pc = "done" ) =>
              ( /\ proc' = proc /\ executing' = executing
                /\ inv'[i].spawned = None
                /\ statusFile'.exists
                /\ Trim(statusFile'.content) = <<"failed">>
                /\ inv'[i].kind = "Err"
                /\ ~pidFile'.exists )]_vars

\* C8, amended: when the launcher fails, the invocation spawns nothing,
\* returns an error and writes no PID Marker; it tries to write failed to
\* the Status Marker and drops the error of that write, so the Status Marker
\* reads failed or is as it was.  A PID Marker that was there (naming a
\* process that ended after the first liveness check) is left as it is.
C8_LauncherFailure ==
    [][\A i \in Invokers :
          ( /\ inv[i].pc = "launch"
            /\ inv'[i].pc = "done" ) =>
              ( /\ proc' = proc /\ executing' = executing
                /\ inv'[i].spawned = None
                /\ inv'[i].kind = "Err" /\ inv'[i].err = "spawn"
                /\ pidFile' = pidFile
                /\ \/ statusFile'.exists /\ Trim(statusFile'.content) = <<"failed">>
                   \/ statusFile' = statusFile )]_vars

\* a launcher failure has been returned: Status Marker failed, no PID Marker
C8_Witness ==
    \E i \in Invokers :
        /\ Returned(i) /\ inv[i].kind = "Err" /\ inv[i].err = "spawn"
        /\ inv[i].spawned = None
        /\ statusFile.exists /\ Trim(statusFile.content) = <<"failed">>
        /\ ~pidFile.exists

\* ---- C9 ----
\* C9 as stated: for the program echo with the single argument
\* non_existent_command_sentinel the launcher fails at once: the invocation
\* returns an error, no process is spawned and no PID Marker is written.
C9_AsStated ==
    [][\A i \in Invokers :
          ( /\ inv[i].pc = "launch" /\ inv'[i].pc # "launch"
            /\ inv'[i].cmd.program = <<"echo">>
            /\ inv'[i].cmd.args = << <<"non_existent_command", "_sentinel">> >> ) =>
              ( /\ inv'[i].pc = "done" /\ inv'[i].kind = "Err"
                /\ proc' = proc /\ executing' = executing
                /\ pidFile' = pidFile )]_vars

\* C9, amended: the launcher fails at once, without starting a shell, when
\* the program name contains non_existent_command: the invocation returns an
\* error, no process is spawned and no PID Marker is written.  The arguments
\* are not inspected.
C9_SentinelProgram ==
    [][\A i \in Invokers :
          ( /\ inv[i].pc = "launch" /\ inv'[i].pc # "launch"
            /\ \E k \in DOMAIN inv'[i].cmd.program :
                   inv'[i].cmd.program[k] = "non_existent_command" ) =>
              ( /\ inv'[i].pc = "done" /\ inv'[i].kind = "Err"
                /\ inv'[i].spawned = None
                /\ proc' = proc /\ executing' = executing
                /\ pidFile' = pidFile )]_vars

\* the launcher has failed for a program named non_existent_command..., and
\* an echo with the sentinel argument has been spawned like any command
C9_Witness ==
    \E i \in Invokers :
        /\ Returned(i) /\ inv[i].kind = "Err" /\ inv[i].err = "spawn"
        /\ inv[i].cmd = CmdMissing
        /\ inv[i].spawned = None

\* ---- C10 ----
\* C10: the monitor writes success into the Status Marker exactly when its
\* command exited with code 0 and failed for every other code; it never
\* writes running or unknown.
C10_MonitorStatus ==
    [][\A code \in ExitCodes :
          ( /\ executing' = executing - 1
            /\ touching'[code] = touching[code] + 1 ) =>
              ( /\ statusFile'.exists
                /\ (Trim(statusFile'.content) = <<"success">>) <=> (code = 0)
                /\ (Trim(statusFile'.content) = <<"failed">>) <=> (code # 0)
                /\ Trim(statusFile'.content) \notin {<<"running">>, <<"unknown">>} )]_vars

\* a monitor whose command exited with a non-zero code has written failed
C10_Witness ==
    \E code \in ExitCodes :
        /\ code # 0 /\ touching[code] > 0
        /\ statusFile.exists /\ Trim(statusFile.content) = <<"failed">>

\* ---- C11 ----
\* C11: every monitor whose command ends eventually writes its final status
\* (success or failed), and every monitor that has written it, for whatever
\* exit code, eventually touches the Last-Run Marker, setting its mtime to
\* now; no state of the invocations or of the spawned /bin/bash holds it back.
\* With monitors counted, not named: unless no monitor is left in a phase
\* from some point on, monitors leave that phase again and again, and they
\* leave it by that write or that touch only.
C11_MonitorsFinish ==
    /\ \/ <>[](executing = 0)
       \/ []<><<( /\ executing' = executing - 1
                  /\ statusFile'.exists
                  /\ Trim(statusFile'.content) \in {<<"success">>, <<"failed">>} )>>_vars
    /\ \A code \in ExitCodes :
         \/ <>[](touching[code] = 0)
         \/ []<><<( /\ touching'[code] = touching[code] - 1
                    /\ lastRun' = now )>>_vars
    /\ [][ /\ executing' < executing =>
                /\ statusFile'.exists
                /\ Trim(statusFile'.content) \in {<<"success">>, <<"failed">>}
          /\ \A code \in ExitCodes :
                touching'[code] < touching[code] => lastRun' = now ]_vars

\* a command has ended with a non-zero code, its monitor has written failed
\* and touched the Last-Run Marker, after the invocation that spawned it
\* returned and the spawned /bin/bash left the process table
C11_Witness ==
    /\ Monitors = 0
    /\ prev = "failed"
    /\ lastRun # None
    /\ statusFile.exists /\ Trim(statusFile.content) = <<"failed">>
    /\ \A i \in Invokers : inv[i].pc = "idle"
    /\ \A p \in Pids : ~proc[p].alive

\* ---- C12 ----
\* C12: with invocations one after the other and none in progress, if a
\* monitor is still executing its command then a PID Marker exists.
C12_MarkerWhileExecuting ==
    ( /\ ~overlapped
      /\ \A i \in Invokers : inv[i].pc = "idle"
      /\ executing > 0 ) =>
        pidFile.exists

\* C12, the same between the steps of an invocation, from the write of the
\* PID Marker on: a PID Marker does not go away while a monitor executes.
C12_MarkerStays ==
    [][( /\ ~overlapped
         /\ executing > 0 /\ executing' > 0
         /\ pidFile.exists ) =>
           pidFile'.exists]_vars

StatusValues == {"Success", "Failed", "Running", "Unknown"}
StatusWords == {<<"success">>, <<"failed">>, <<"running">>, <<"unknown">>}

\* C14: whatever job.status is found to hold, the status read is one of
\* success, failed, running, unknown; a marker that is absent or holds none
\* of success, failed, running reads unknown, and the invocation goes on;
\* every write of the marker, by the scheduler or by a monitor, stores one of
\* the four words.
C14_StatusValues ==
    /\ [](GetJobStatus \in StatusValues)
    /\ []( (~statusFile.exists
              \/ Trim(statusFile.content) \notin {<<"success">>, <<"failed">>, <<"running">>})
           => GetJobStatus = "Unknown" )
    /\ [](\A i \in Invokers : inv[i].status \in StatusValues \cup {"unread"})
    /\ [][ statusFile' # statusFile
             => (statusFile'.exists /\ Trim(statusFile'.content) \in StatusWords) ]_vars

\* an invocation has read a marker that holds another word as unknown and
\* gone on to the second liveness check
C14_Witness ==
    \E i \in Invokers :
        /\ inv[i].pc = "check2"
        /\ inv[i].status = "Unknown"
        /\ statusFile = File(<<"Success", "\n">>)

\* a monitor has stored its final status over a marker found with another word
C14_WitnessWrite ==
    /\ statusFile = File(<<"failed", "\n">>)
    /\ Sum(touching, ExitCodes) > 0

C15_WitnessBoundary ==
    \E i \in Invokers :
        /\ inv[i].pc = "check2"
        /\ inv[i].maxAge > 0
        /\ inv[i].staleness = inv[i].maxAge
        /\ statusFile.exists
        /\ Trim(statusFile.content) = <<"success">>

\* recent, but the marker is absent or reads something else: not Fresh
C15_WitnessStatus ==
    \E i \in Invokers :
        /\ inv[i].pc = "check2"
        /\ inv[i].staleness = 0
        /\ inv[i].maxAge = MaxAgeLong
        /\ inv[i].status \in {"Failed", "Running", "Unknown"}

\* ------------------------------------------------------------------ C16
\* C16: two overlapping invocations can both spawn a monitor (C16_Witness).
\* What the code does guarantee: an invocation passes the second liveness
\* check towards the launcher only while the PID Marker names no live
\* process, so the second spawn needs the window between that check and
\* the other invocation's write of the marker; and a spawn adds a monitor
\* without touching the PID Marker, which holds one pid.
C16_LaunchOnlyUnseen ==
    [][ /\ \A i \in Invokers :
             (inv[i].pc = "check2" /\ inv'[i].pc = "launch")
             => ~(pidFile.exists /\ GetPid \in Pids /\ proc[GetPid].alive)
        /\ \A i \in Invokers :
             (inv[i].pc = "launch" /\ inv'[i].pc = "savepid")
             => (executing' = executing + 1 /\ pidFile' = pidFile) ]_vars

\* both invocations have spawned: two monitors run their command at once,
\* the first invocation has written its pid, the second holds another
\* process that the PID Marker does not name
C16_Witness ==
    /\ inv[1].pc = "saverunning"
    /\ inv[2].pc = "savepid"
    /\ executing = 2
    /\ pidFile.exists
    /\ GetPid = inv[1].spawned
    /\ proc[inv[1].spawned].alive
    /\ proc[inv[2].spawned].alive
    /\ inv[2].spawned # inv[1].spawned

\* ------------------------------------------------------------------ C17
\* C17: once the monitor an invocation launched, alone at work, has written
\* success or failed, no step changes the Status Marker until the next
\* invocation starts: in particular the write of running by the invocation
\* that launched it (line 229) does not land after it.
C17_NoRace ==
    [][ (prev \in {"ok", "failed"} /\ prev' = prev) => statusFile' = statusFile ]_vars

\* ------------------------------------------------------------------ C18
\* C18: the invocation that follows a monitor which recorded failed and
\* touched the Last-Run Marker, with no monitor at work, and that itself
\* read failed from the Status Marker (line 197), gets from run() an item
\* whose subtitle begins "Last failed <staleness> ago".
C18_LastFailedShown ==
    \A i \in Invokers :
        ( /\ inv[i].pc = "shown"
          /\ inv[i].kind = "Stale"
          /\ inv[i].afterFailed
          /\ inv[i].status = "Failed" )
        => LET sub == inv[i].item.subtitle
               ago == FormatDuration(inv[i].staleness) IN
           /\ inv[i].item.some
           /\ Len(sub) >= Len(ago) + 2
           /\ sub[1] = "Last failed "
           /\ SubSeq(sub, 2, Len(ago) + 1) = ago
           /\ sub[Len(ago) + 2] = " ago ("

\* ------------------------------------------------------------------ C19
\* C19: when run() returns, it returns no item if and only if run_if_needed
\* returned Fresh; for a Stale result, found running or just launched, one
\* item titled "Background Job '<name>'" with valid = false; for an error
\* one item whose subtitle is "Error starting job: " followed by the
\* error's message.
C19_ItemForResult ==
    \A i \in Invokers :
        inv[i].pc = "shown"
        => /\ inv[i].kind \in {"Fresh", "Stale", "Err"}
           /\ (~inv[i].item.some) <=> (inv[i].kind = "Fresh")
           /\ inv[i].kind = "Stale"
              => /\ inv[i].item.title = <<"Background Job '", JobName, "'">>
                 /\ inv[i].item.valid = "false"
           /\ inv[i].kind = "Err"
              => inv[i].item.subtitle = <<"Error starting job: ", inv[i].err>>

\* run() returns the item of a first run that was just launched
C19_Witness ==
    \E i \in Invokers :
        /\ inv[i].pc = "shown"
        /\ inv[i].kind = "Stale"
        /\ inv[i].staleness = None
        /\ inv[i].item.some
        /\ inv[i].item.valid = "false"
        /\ inv[i].item.subtitle[1] = "First run, "

\* run() returns nothing for a Fresh result
C19_WitnessFresh ==
    \E i \in Invokers :
        inv[i].pc = "shown" /\ inv[i].kind = "Fresh" /\ ~inv[i].item.some

\* run() returns the item of a spawn failure
C19_WitnessErr ==
    \E i \in Invokers :
        /\ inv[i].pc = "shown"
        /\ inv[i].kind = "Err"
        /\ inv[i].item.subtitle = <<"Error starting job: ", "spawn">>

\* run() returns the item of a job found running
C19_WitnessFoundRunning ==
    \E i \in Invokers :
        /\ inv[i].pc = "shown"
        /\ inv[i].kind = "Stale"
        /\ prev = "none"
        /\ inv[i].item.valid = "false"

\* ------------------------------------------------------------------ C20
\* C20: get_staleness never aborts the invocation: whatever mtime the
\* Last-Run Marker is found with, one later than the current time included,
\* the invocation goes on with a staleness (now - mtime, or none) and does
\* not end in a panic.
C20_StalenessNeverAborts ==
    /\ \A i \in Invokers : inv[i].kind # "Panic"
    /\ \A i \in Invokers : inv[i].pc = "check1" => inv[i].staleness \in {None} \cup (0..MaxTime)

\* ------------------------------------------------------------------ C21
\* C21: an invocation that cannot create the job directory returns an error,
\* which run() shows as an error item; it has spawned nothing, and no PID,
\* Status or Last-Run Marker has been written (none exists, as there is no
\* directory to hold one).
C21_NoDirectoryNoJob ==
    \A i \in Invokers :
        (inv[i].pc \in {"done", "shown"} /\ inv[i].err = "dir")
        => /\ inv[i].kind = "Err"
           /\ inv[i].spawned = None
           /\ ~dirExists
           /\ ~pidFile.exists /\ ~statusFile.exists /\ lastRun = None
           /\ executing = 0 /\ \A c \in ExitCodes : touching[c] = 0
           /\ \A p \in Pids : ~proc[p].alive
           /\ inv[i].pc = "shown"
              => /\ inv[i].item.some
                 /\ inv[i].item.subtitle = <<"Error starting job: ", "dir">>

\* run() returns the error item of a directory that could not be created
C21_Witness ==
    \E i \in Invokers :
        /\ inv[i].pc = "shown"
        /\ inv[i].err = "dir"
        /\ ~dirExists
        /\ inv[i].item.subtitle = <<"Error starting job: ", "dir">>

\* ------------------------------------------------------------------ C22
\* C22: when an invocation returns an error, no monitor it started is at
\* work: it has spawned nothing, or the monitor it spawned (alone at work
\* when spawned) has already ended its command.
C22_ErrorMeansNoJob ==
    \A i \in Invokers :
        (inv[i].pc = "done" /\ inv[i].kind = "Err")
        => ~(inv[i].spawned # None /\ prev = "solo" /\ executing > 0)

\* ------------------------------------------------------------------ C23
\* C23: the invocation that has launched a monitor returns Stale(staleness, 0),
\* whatever exit code the command ends with, before or after the return.
C23_LaunchReturnsStale ==
    \A i \in Invokers :
        (inv[i].pc = "done" /\ inv[i].spawned # None)
        => (inv[i].kind = "Stale" /\ inv[i].dur = 0)

\* What holds of the code: the exit code has no part in the result.  The
\* launching invocation returns Stale(staleness, 0), or the error of its own
\* write of the PID Marker or of the Status Marker, with the same choice
\* open whether the command has ended, and with which code, or not.
C23_ExitCodeHasNoPart ==
    \A i \in Invokers :
        (inv[i].pc = "done" /\ inv[i].spawned # None)
        => \/ inv[i].kind = "Stale" /\ inv[i].dur = 0
           \/ inv[i].kind = "Err" /\ inv[i].err \in {"pid", "status"}

\* the command has ended with a non-zero code before the launching
\* invocation returns Stale(staleness, 0)
C23_WitnessFailedBeforeReturn ==
    \E i \in Invokers :
        /\ inv[i].pc = "done" /\ inv[i].spawned # None
        /\ inv[i].kind = "Stale" /\ inv[i].dur = 0
        /\ prev = "failed"

\* ------------------------------------------------------------------ C24
\* the single quotes in a token
RECURSIVE QuoteCount(_)
QuoteCount(t) ==
    IF t = << >> THEN 0 ELSE (IF Head(t) = "'" THEN 1 ELSE 0) + QuoteCount(Tail(t))

\* the text between the wrapping quotes, read back: each run '"'"' is one
\* single quote, a single quote on its own is none
RECURSIVE UndoQuotes(_)
UndoQuotes(e) ==
    IF e = << >> THEN << >>
    ELSE IF Len(e) >= 5 /\ SubSeq(e, 1, 5) = <<"'", "\"", "'", "\"", "'">>
    THEN <<"'">> \o UndoQuotes(SubSeq(e, 6, Len(e)))
    ELSE IF Head(e) = "'" THEN <<"<stray quote>">> \o UndoQuotes(Tail(e))
    ELSE <<Head(e)>> \o UndoQuotes(Tail(e))

\* C24: each part the launcher builds follows the table: '' for the empty
\* token; the token itself when it is non-empty and made of ASCII letters,
\* digits, '-', '_', '.', '/' only; otherwise the token between two single
\* quotes with each of its single quotes replaced by the five characters
\* '"'"' and nothing else changed.
C24_EscapingTable ==
    esc.step \in {"built", "split"}
    => /\ Len(esc.parts) = Len(esc.tokens)
       /\ \A k \in DOMAIN esc.tokens :
            LET t == esc.tokens[k]
                e == esc.parts[k]
                plain == \A j \in DOMAIN t :
                            t[j] \in AsciiLetters \cup AsciiDigits \cup {"-", "_", ".", "/"} IN
            /\ t = << >> => e = <<"'", "'">>
            /\ (t # << >> /\ plain) => e = t
            /\ (t # << >> /\ ~plain)
               => /\ Len(e) = Len(t) + 2 + 4 * QuoteCount(t)
                  /\ e[1] = "'" /\ e[Len(e)] = "'"
                  /\ UndoQuotes(SubSeq(e, 2, Len(e) - 1)) = t

\* a token with a letter and a single quote has been escaped
C24_Witness ==
    /\ esc.step = "built"
    /\ esc.tokens = << <<"a", "'">> >>
    /\ esc.parts = << <<"'", "a", "'", "\"", "'", "\"", "'", "'">> >>

\* the empty token, a token of safe characters, a token with a letter that
\* is not ASCII
C24_WitnessEmpty == esc.step = "built" /\ esc.tokens = << << >> >> /\ esc.parts = << <<"'", "'">> >>
C24_WitnessPlain ==
    esc.step = "built" /\ esc.tokens = << <<"/", "7">> >> /\ esc.parts = esc.tokens
C24_WitnessNotAscii ==
    esc.step = "built" /\ esc.tokens = << <<EAcute>> >> /\ esc.parts = << <<"'", EAcute, "'">> >>

\* ------------------------------------------------------------------ C25
\* C25: the words /bin/bash splits the command string into are the tokens
\* the command was built from: as many, in the same order, each with the
\* same characters, none expanded, none cut.
C25_RoundTrip ==
    esc.step = "split" => esc.words = esc.tokens

\* a program, an empty argument and an argument made of a single quote and
\* a dollar sign have made the round trip
C25_Witness ==
    /\ esc.step = "split"
    /\ esc.tokens = << <<"a">>, << >>, <<"'", "$">> >>
    /\ esc.cmdString = <<"a", " ", "'", "'", " ", "'", "'", "\"", "'", "\"", "'", "$", "'">>
    /\ esc.words = esc.tokens

\* an argument with a space and a backtick
C25_WitnessBlank ==
    /\ esc.step = "split"
    /\ esc.tokens = << <<"a">>, <<" ", Backtick>> >>
    /\ esc.words = esc.tokens

\* ------------------------------------------------------------------ C26
\* the staleness invoker i took is present and below its max_age
RecentlyRun(i) ==
    /\ inv[i].staleness \in 0..MaxTime
    /\ inv[i].maxAge # None
    /\ inv[i].staleness < inv[i].maxAge

C27_CleanupAfterMonitor ==
    [][ \A i \in Invokers :
          (inv[i].pc = "check1" /\ pidFile.exists /\ ~pidFile'.exists)
          => (executing = 0 /\ \A c \in ExitCodes : touching[c] = 0) ]_vars

\* ------------------------------------------------------------------ C28
\* C28: the freshness test goes by the Last-Run Marker as it is when the
\* test is made: if by then the marker's mtime is within max_age of now and
\* the Status Marker reads success, also when a monitor wrote them after the
\* invocation started, the invocation returns Fresh.
C28_FreshnessRechecked ==
    [][ \A i \in Invokers :
          ( /\ inv[i].pc = "fresh" /\ inv'[i].pc # "fresh"
            /\ lastRun # None /\ lastRun <= now
            /\ now - lastRun < inv'[i].maxAge
            /\ statusFile.exists
            /\ Trim(statusFile.content) = <<"success">> )
          => (inv'[i].pc = "done" /\ inv'[i].kind = "Fresh") ]_vars

\* ------------------------------------------------------------------ C29
\* the PID Marker holds no pid, or the pid of no live process
MarkerOfNoProcess ==
    /\ pidFile.exists
    /\ LET pid == ParseU32(Trim(pidFile.content)) IN
       pid = None \/ pid \notin Pids \/ ~proc[pid].alive

C29_WitnessUnparsable ==
    /\ inv[1].pc = "check1"
    /\ pidFile = File(<<"x", "\n">>)
    /\ MarkerOfNoProcess

\* ------------------------------------------------------------------ C30
\* the PID Marker names a live process
MarkerOfLiveProcess ==
    /\ pidFile.exists
    /\ ParseU32(Trim(pidFile.content)) \in Pids
    /\ proc[ParseU32(Trim(pidFile.content))].alive

\* C30: while the PID Marker names a live process, whatever process that
\* is and whatever max_age is, the first liveness check leaves the marker
\* alone, and an invocation that is not Fresh returns, at the second
\* liveness check, Stale with the age of that process: no error, nothing
\* spawned, no process ended, the PID Marker kept.
C30_LiveMarkerMeansRunning ==
    [][ \A i \in Invokers :
          MarkerOfLiveProcess
          => /\ (inv[i].pc = "check1" /\ inv'[i].pc # "check1")
                => /\ inv'[i].pc = "fresh"
                   /\ pidFile' = pidFile /\ proc' = proc /\ executing' = executing
             /\ (inv[i].pc = "check2" /\ inv'[i].pc # "check2")
                => /\ inv'[i].pc = "done"
                   /\ inv'[i].kind = "Stale"
                   /\ inv'[i].staleness = inv[i].staleness
                   /\ inv'[i].dur = now - proc[ParseU32(Trim(pidFile.content))].start
                   /\ inv'[i].spawned = None
                   /\ pidFile' = pidFile /\ proc' = proc /\ executing' = executing ]_vars

\* a process that is no monitor of the job holds the pid the PID Marker
\* names: an invocation has returned Stale with the age of that process,
\* one second, while no monitor is at work and max_age is 0
C30_Witness ==
    /\ inv[1].pc = "done"
    /\ inv[1].kind = "Stale"
    /\ inv[1].spawned = None
    /\ inv[1].maxAge = 0
    /\ inv[1].dur = 1
    /\ now = 1
    /\ MarkerOfLiveProcess
    /\ executing = 0 /\ \A c \in ExitCodes : touching[c] = 0
    /\ lastRun = 0

\* ------------------------------------------------------------------ C31
\* C31 as stated: run_if_needed never returns Fresh while the process the
\* PID Marker names is alive.
C31_AsStated ==
    \A i \in Invokers :
        (inv[i].pc = "done" /\ inv[i].kind = "Fresh") => ~MarkerOfLiveProcess

\* C31: a result is Fresh or running, never both: a Fresh result carries no
\* run duration and comes from an invocation that spawned nothing.  Whether
\* the result is Fresh is decided by the staleness and the Status Marker
\* alone, before the second liveness check: with a recent Last-Run Marker
\* and a status of success the invocation returns Fresh, also while the
\* process the PID Marker names is alive.
C31_FreshIgnoresLiveness ==
    [][ \A i \in Invokers :
          /\ (inv[i].pc = "fresh" /\ inv'[i].pc # "fresh")
             => /\ (inv'[i].pc = "done" /\ inv'[i].kind = "Fresh")
                   <=> (Recent(inv[i].staleness, inv'[i].maxAge) /\ GetJobStatus = "Success")
                /\ inv'[i].pc = "done" => inv'[i].dur = None /\ inv'[i].spawned = None
          /\ (inv'[i].pc = "done" /\ inv[i].pc # "done" /\ inv'[i].kind = "Fresh")
             => inv[i].pc = "fresh" ]_vars

\* an invocation has returned Fresh while the PID Marker names a live
\* process, the one the invocation before it spawned
C31_Witness ==
    \E i \in Invokers :
        /\ inv[i].pc = "done"
        /\ inv[i].kind = "Fresh"
        /\ inv[i].dur = None
        /\ MarkerOfLiveProcess
        /\ inv[i].seen

\* ------------------------------------------------------------------ C32
\* what the code writes into job.status: the monitor's echo, the
\* Scheduler's "running" and "failed"
WrittenStatusFiles ==
    {File(MonitorStatus(c)) : c \in ExitCodes}
        \cup {File(StatusStr("Running")), File(StatusStr("Failed"))}

\* C32: a monitor ends its command, then writes its final status, then
\* touches the Last-Run Marker, each step on its own: the step that writes
\* the status ends the command and leaves the Last-Run Marker alone, the
\* touch is taken only by a monitor that has written its status and leaves
\* the Status Marker alone.  Whoever sees a Last-Run mtime set by a monitor
\* finds a Status Marker written by that run or by a later write.
C32_StatusBeforeTouch ==
    [][ /\ executing' < executing
           => /\ executing' = executing - 1
              /\ Sum(touching', ExitCodes) = Sum(touching, ExitCodes) + 1
              /\ \E c \in ExitCodes : touching'[c] = touching[c] + 1
                                      /\ statusFile' = File(MonitorStatus(c))
              /\ lastRun' = lastRun
        /\ lastRun' # lastRun
           => /\ \E c \in ExitCodes : touching[c] > 0 /\ touching'[c] = touching[c] - 1
              /\ executing' = executing
              /\ lastRun' = now
              /\ statusFile' = statusFile
              /\ statusFile \in WrittenStatusFiles
        /\ Sum(touching', ExitCodes) < Sum(touching, ExitCodes) => lastRun' = now ]_vars

\* a monitor whose command failed has written failed and then touched the
\* Last-Run Marker, one second after the job was launched; no monitor is
\* left at work
C32_Witness ==
    /\ prev = "failed"
    /\ executing = 0 /\ \A c \in ExitCodes : touching[c] = 0
    /\ statusFile = File(MonitorStatus(1))
    /\ lastRun = 1 /\ now = 1

\* ------------------------------------------------------------------ C33
\* how far an invocation is in run_if_needed
PcRank(pc) ==
    CASE pc = "idle" -> 0
      [] pc = "check1" -> 1
      [] pc = "fresh" -> 2
      [] pc = "check2" -> 3
      [] pc = "launch" -> 4
      [] pc = "savepid" -> 5
      [] pc = "saverunning" -> 6
      [] OTHER -> 7

\* some step of invocation i inside run_if_needed can be taken
CanStep(i) ==
    ENABLED (Check1(i) \/ FreshTest(i) \/ Check2(i) \/ LaunchOk(i) \/ LaunchErr(i)
             \/ SavePid(i) \/ SaveRunning(i))

\* an invocation goes forward with each of its steps, so that it returns
\* after at most seven of them; it spawns at most once; and none of its
\* steps waits for a monitor: while no call is at its return, a step of it
\* can be taken whatever the monitors are doing
C33_ForwardWithoutWaiting ==
    /\ [][ \A i \in Invokers :
             /\ (Active(i) /\ inv'[i] # inv[i]) => PcRank(inv'[i].pc) > PcRank(inv[i].pc)
             /\ inv'[i].spawned # inv[i].spawned /\ inv'[i].pc # "idle" /\ ~Returned(i)
                => /\ inv[i].spawned = None
                   /\ inv[i].pc = "launch"
                   /\ executing' = executing + 1
             /\ executing' > executing
                => /\ executing' = executing + 1
                   /\ \E j \in Invokers : inv[j].pc = "launch" /\ inv'[j].pc = "savepid" ]_vars
    /\ [](\A i \in Invokers : (Active(i) /\ Quiet) => CanStep(i))

\* C33: every invocation of run_if_needed ends with exactly one of Fresh,
\* Stale and Error, having spawned at most one monitor and without waiting
\* for a monitor to finish.
C33_OneResult ==
    /\ C33_ForwardWithoutWaiting
    /\ [](\A i \in Invokers : inv[i].pc = "done" => inv[i].kind \in {"Fresh", "Stale", "Err"})

\* the same, of the invocations whose get_staleness returns
C33_ApartFromPanic ==
    /\ C33_ForwardWithoutWaiting
    /\ [](\A i \in Invokers :
            inv[i].pc = "done" => inv[i].kind \in {"Fresh", "Stale", "Err", "Panic"})
    /\ [][ \A i \in Invokers :
             (inv'[i].pc = "done" /\ inv'[i].kind = "Panic") => inv[i].pc = "idle" ]_vars

\* an invocation returns Stale, having spawned a monitor, while the monitor
\* an earlier invocation spawned is still executing its command
C33_WitnessNoWaiting ==
    \E i \in Invokers :
        /\ inv[i].pc = "done"
        /\ inv[i].kind = "Stale"
        /\ inv[i].spawned # None
        /\ executing = 2

OnlySuccess == prev # "failed" /\ \A c \in ExitCodes \ {0} : touching[c] = 0

\* the one max_age every invocation is made with, above zero
FixedMaxAge == \A i \in Invokers : inv[i].maxAge \in {None, MaxAgeLong}

\* no invocation has met an error of the file system or of the spawn
NoErrors == \A i \in Invokers : inv[i].kind # "Err"

\* an invocation returns Fresh
FreshReturned == \E i \in Invokers : inv[i].pc = "done" /\ inv[i].kind = "Fresh"

\* C36: if the command always ends with exit code 0, every monitor
\* completes (the fairness of SpecLive), and invocations with one max_age
\* above zero, none of them overlapping another or meeting an error, start
\* and return again and again, less than max_age apart (SpecSteady: within the same
\* second), then at some time an invocation returns Fresh.
C36_EventuallyFresh ==
    ( /\ []OnlySuccess
      /\ []FixedMaxAge
      /\ []NoErrors
      /\ []<>(inv[1].pc = "idle") /\ []<>(inv[1].pc = "done") )
    => <>FreshReturned

\* ------------------------------------------------------------------ C37
\* the job is reported as running and nothing runs: the Status Marker reads
\* running, no monitor is at work and the PID Marker names no live process
Orphaned == GetJobStatus = "Running" /\ Monitors = 0 /\ ~MarkerOfLiveProcess

\* what an invocation does with a job that is reported running while
\* nothing runs: the first liveness check removes the PID Marker left
\* behind, or (failOk) fails to remove it and returns that error; the
\* freshness test does not return Fresh; the second liveness check goes on
\* to the launcher; the launcher spawns a monitor, or (failOk) fails and
\* returns its error
RecoversOrphan(i, failOk) ==
    /\ (inv[i].pc = "check1" /\ inv'[i].pc # "check1" /\ pidFile.exists)
       => \/ ~pidFile'.exists /\ inv'[i].pc = "fresh"
          \/ /\ failOk
             /\ inv'[i].pc = "done" /\ inv'[i].kind = "Err" /\ inv'[i].err = "cleanup"
             /\ pidFile' = pidFile /\ executing' = executing
    /\ (inv[i].pc = "fresh" /\ inv'[i].pc # "fresh") => inv'[i].pc = "check2"
    /\ (inv[i].pc = "check2" /\ inv'[i].pc # "check2") => inv'[i].pc = "launch"
    /\ (inv[i].pc = "launch" /\ inv'[i].pc # "launch")
       => \/ inv'[i].pc = "savepid" /\ inv'[i].spawned # None /\ executing' = executing + 1
          \/ /\ failOk
             /\ inv'[i].pc = "done" /\ inv'[i].kind = "Err" /\ inv'[i].err = "spawn"
             /\ executing' = executing

\* C37 as stated: after a monitor died before its final status, with the
\* Status Marker at running and the PID Marker left behind, the next
\* invocation removes the PID Marker and launches a new monitor.
C37_AsStated ==
    [][ \A i \in Invokers : Orphaned => RecoversOrphan(i, FALSE) ]_vars

\* C37, amended: such an invocation tries to remove the PID Marker and, the
\* marker removed, never returns Fresh and invokes the launcher: a monitor
\* is launched unless the removal or the launcher fails, and the invocation
\* then returns that error.  As long as invocations come and none of them
\* fails, the job does not stay reported as running with nothing running.
C37_OrphanIsRelaunched ==
    /\ [][ \A i \in Invokers : Orphaned => RecoversOrphan(i, TRUE) ]_vars
    /\ ([]NoErrors /\ []<>(inv[1].pc = "idle") /\ []<>(inv[1].pc = "done"))
       => [](Orphaned => <>~Orphaned)

\* a monitor died before its command ended; the next invocation has removed
\* the PID Marker and spawned a new monitor, the only one at work, while
\* the Status Marker still reads running and no Last-Run Marker exists
C37_Witness ==
    \E i \in Invokers :
        /\ inv[i].pc = "savepid"
        /\ inv[i].spawned # None
        /\ executing = 1 /\ \A c \in ExitCodes : touching[c] = 0
        /\ GetJobStatus = "Running"
        /\ ~pidFile.exists
        /\ lastRun = None

\* ------------------------------------------------------------------ C38
\* the Status Marker is as a monitor left it: echo ends the line, the
\* Scheduler's write does not
MonitorWrote ==
    /\ statusFile.exists
    /\ Len(statusFile.content) > 0
    /\ statusFile.content[Len(statusFile.content)] = "\n"

\* the outcome of a run that ended with exit code c
Outcome(c) == IF c = 0 THEN <<"success">> ELSE <<"failed">>

\* C38 as stated: when the touch of a monitor leaves no monitor at work and
\* the Status Marker is as a monitor left it, the Status Marker holds the
\* outcome of the run of that monitor, the one whose touch has set the
\* Last-Run mtime, also when monitors have overlapped.
C38_AsStated ==
    [][ \A c \in ExitCodes :
          ( /\ touching'[c] = touching[c] - 1
            /\ Monitors = 1
            /\ MonitorWrote )
          => Trim(statusFile'.content) = Outcome(c) ]_vars

\* C38, amended: the same, unless a monitor has written its status while
\* another one had written its own and had not yet touched the Last-Run
\* Marker; then the Status Marker holds the outcome of the monitor that
\* wrote last and the Last-Run mtime is that of the monitor that touched
\* last, and the two need not be the same run.
C38_StatusOfLastRun ==
    [][ \A c \in ExitCodes :
          ( /\ touching'[c] = touching[c] - 1
            /\ Monitors = 1
            /\ MonitorWrote )
          => /\ lastRun' = now /\ statusFile' = statusFile
             /\ ~crossed => Trim(statusFile'.content) = Outcome(c)
             /\ Trim(statusFile'.content) \in {Outcome(d) : d \in ExitCodes} ]_vars

\* two monitors have overlapped, the second spawned while the first was at
\* work; both are done, the one that wrote last touched last, and the
\* Status Marker holds failed as that monitor left it
C38_Witness ==
    /\ prev = "shared"
    /\ Monitors = 0
    /\ ~crossed
    /\ MonitorWrote
    /\ Trim(statusFile.content) = Outcome(1)
    /\ lastRun = now

\* two monitors have crossed: the one that has touched last, after a failed
\* run, is about to leave a Status Marker of success behind
C38_WitnessCrossed ==
    /\ crossed
    /\ executing = 0 /\ touching[1] = 1 /\ touching[0] = 0
    /\ MonitorWrote /\ Trim(statusFile.content) = Outcome(0)

====
